---------------------------- MODULE Spec2Model ----------------------------
(***************************************************************************)
(* Model of the PDF extraction pipeline of src/extract_pdf_tables.py:      *)
(* main, PDFExtractor.extract_all and the methods it calls; and of         *)
(* hwp_to_html of src/utils.py.                                            *)
(*                                                                         *)
(* Conventions.                                                            *)
(*  - A Python str is a sequence of one-character strings.                 *)
(*  - A confidence (a float percentage rounded to two decimals, or a       *)
(*    backend-native accuracy) is an integer number of hundredths of a     *)
(*    percent: 85.0 is 8500.                                               *)
(*  - A TableData object carries the field oid, its object identity (the   *)
(*    order in which the objects were constructed); Python's max() and     *)
(*    list membership are by object, not by field values.                  *)
(*  - An exception raised by a backend is an instance of Exception, and a   *)
(*    backend fails in its call (pdfplumber.open, page.extract_text,        *)
(*    page.extract_tables, camelot.read_pdf): the loops over the tables a   *)
(*    call returned only read attributes of parsed tables.                  *)
(*  - The variables candidates, calls and raw record the history of the    *)
(*    run; the program does not hold them.                                  *)
(*  - Spec is a run of main; SpecScore, SpecClassify, SpecRender, SpecHwp,  *)
(*    SpecValidate and SpecLayout are calls of                              *)
(*    _calculate_table_confidence, _add_text_block, _save_results,          *)
(*    hwp_to_html, _cross_validate_tables and _extract_text_with_layout on  *)
(*    arguments of their own.                                               *)
(***************************************************************************)
EXTENDS Integers, Sequences, FiniteSets, TLC

VARIABLES
    pdf_file,           \* sys.argv[1] and the file system: see PdfFiles
    printed,            \* the messages main has printed
    exit_code,          \* the argument of sys.exit, if main has called it
    output_dir,         \* whether the run has created the output directory
    arg,                \* the argument of a function called on its own
    result,             \* what that call returned or raised
    pc,                 \* position of main and extract_all
    numPages,           \* len(pdf.pages) of the input document
    page,               \* page_num of the loop of _extract_with_pdfplumber
    text_blocks,        \* self.text_blocks
    tables,             \* self.tables
    comparison_report,  \* self.comparison_report
    candidates,         \* self.tables as _cross_validate_tables found it
    calls,              \* per backend: "none", "ok" or "threw"
    raw,                \* per backend: number of tables the backend returned
    files               \* the files written to output_dir

\* the state of main outside the extractor
mainVars == <<pdf_file, printed, exit_code, output_dir>>

\* the argument and the outcome of a direct call of one function
callVars == <<arg, result>>

vars == <<mainVars, callVars, pc, numPages, page, text_blocks, tables,
          comparison_report, candidates, calls, raw, files>>

-----------------------------------------------------------------------------
(* Bounds of the model *)

\* the most pages a document has
MaxPages == 2

\* the most tables the three backends return in one run, all pages together
MaxRaw == 3

-----------------------------------------------------------------------------
(* Generic helpers *)

\* max(S) of a non-empty set of integers
MaxOfSet(S) == CHOOSE x \in S : \A y \in S : y <= x

RECURSIVE SumSeq(_)
SumSeq(s) == IF s = <<>> THEN 0 ELSE Head(s) + SumSeq(Tail(s))

RECURSIVE FlattenSeq(_)
FlattenSeq(ss) == IF ss = <<>> THEN <<>> ELSE Head(ss) \o FlattenSeq(Tail(ss))

Range(s) == {s[i] : i \in 1..Len(s)}

\* the lists of at most n elements of S
SeqsUpTo(S, n) == UNION {[1..k -> S] : k \in 0..n}

\* the distinct values of keys in the order of their first occurrence (the
\* key order of a dict filled while iterating)
RECURSIVE KeysInOrder(_, _)
KeysInOrder(keys, seen) ==
    IF keys = <<>> THEN <<>>
    ELSE IF Head(keys) \in seen THEN KeysInOrder(Tail(keys), seen)
         ELSE <<Head(keys)>> \o KeysInOrder(Tail(keys), seen \cup {Head(keys)})

-----------------------------------------------------------------------------
(* Strings: the characters the classification of a text distinguishes.     *)
(* A character outside ASCII is named by its code point.                    *)

Whitespace == {" ", "\t"}

Digits == {"0", "1", "2", "3", "4", "5", "6", "7", "8", "9"}

DigitOf == <<"0", "1", "2", "3", "4", "5", "6", "7", "8", "9">>

UpperLetters == {"A", "B", "C", "I", "T", "L", "E"}

LowerLetters == {"a", "b", "c", "d", "e", "f", "g", "i", "l", "m", "n", "o",
                 "r", "t", "u"}

\* the characters of the class [○●▪▫•·]
BulletGlyphs == {"U+25CB", "U+25CF", "U+25AA", "U+25AB", "U+2022", "U+00B7"}

DashGlyphs == {"-", "*", "+"}

\* characters of the range U+AC00..U+D558 that the model uses
HangulGaHa == {"U+AC00", "U+B098", "U+C7A5", "U+C808", "U+BD80", "U+D300",
               "U+B2F4", "U+B2F9", "U+D558"}

\* the keywords of the heading rule, as strings
HeadingKeywords == {<<"U+C7A5">>, <<"U+C808">>, <<"U+BD80">>, <<"U+D300">>,
                    <<"U+B2F4", "U+B2F9">>}

\* str(n) for n >= 0
RECURSIVE IntToStr(_)
IntToStr(n) ==
    IF n < 10 THEN <<DigitOf[n + 1]>>
    ELSE IntToStr(n \div 10) \o <<DigitOf[(n % 10) + 1]>>

\* s.lstrip()
RECURSIVE LStrip(_)
LStrip(s) ==
    IF s # <<>> /\ Head(s) \in Whitespace THEN LStrip(Tail(s)) ELSE s

\* s.rstrip()
RECURSIVE RStrip(_)
RStrip(s) ==
    IF s # <<>> /\ s[Len(s)] \in Whitespace
    THEN RStrip(SubSeq(s, 1, Len(s) - 1)) ELSE s

\* s.strip()
Strip(s) == RStrip(LStrip(s))

\* s.lower()
ToLower(c) ==
    CASE c = "A" -> "a" [] c = "B" -> "b" [] c = "C" -> "c" [] c = "I" -> "i"
      [] c = "T" -> "t" [] c = "L" -> "l" [] c = "E" -> "e" [] OTHER -> c

Lower(s) == [i \in 1..Len(s) |-> ToLower(s[i])]

\* s.isupper(): at least one cased character and no lower-case one
IsUpper(s) ==
    /\ \E i \in 1..Len(s) : s[i] \in UpperLetters
    /\ \A i \in 1..Len(s) : s[i] \notin LowerLetters

\* kw in s
Contains(s, kw) ==
    \E i \in 1..(Len(s) - Len(kw) + 1) : SubSeq(s, i, i + Len(kw) - 1) = kw

\* text.split('\n')
RECURSIVE SplitLines(_, _)
SplitLines(s, cur) ==
    IF \A i \in 1..Len(s) : s[i] # "\n" THEN <<cur \o s>>
    ELSE LET k == CHOOSE i \in 1..Len(s) :
                      s[i] = "\n" /\ \A j \in 1..(i - 1) : s[j] # "\n"
         IN  <<cur \o SubSeq(s, 1, k - 1)>>
             \o SplitLines(SubSeq(s, k + 1, Len(s)), <<>>)

\* ' '.join(parts)
RECURSIVE JoinSpace(_)
JoinSpace(parts) ==
    IF parts = <<>> THEN <<>>
    ELSE IF Len(parts) = 1 THEN parts[1]
         ELSE parts[1] \o <<" ">> \o JoinSpace(Tail(parts))

\* re.match(r'^\d+[\.\)]\s+', s)
MatchNumbered(s) ==
    \E k \in 1..Len(s) :
        /\ \A i \in 1..k : s[i] \in Digits
        /\ Len(s) >= k + 2
        /\ s[k + 1] \in {".", ")"}
        /\ s[k + 2] \in Whitespace

\* re.match(r'^[C]\s+', s) for a character class C
MatchGlyph(s, class) ==
    Len(s) >= 2 /\ s[1] \in class /\ s[2] \in Whitespace

\* re.match(r'^[C][\.\)]\s+', s) for a character class C
MatchEnumerator(s, class) ==
    Len(s) >= 3 /\ s[1] \in class /\ s[2] \in {".", ")"} /\ s[3] \in Whitespace

-----------------------------------------------------------------------------
(* TextBlock and the Text Segmenter *)

TextBlock(text, block_type, level, page_num) ==
    [text |-> text, block_type |-> block_type, level |-> level,
     page_num |-> page_num]

\* the (pattern, depth) pairs of list_patterns whose pattern matches, in order
ListPatternHits(text) ==
    <<[hit |-> MatchGlyph(text, BulletGlyphs), depth |-> 1],
      [hit |-> MatchGlyph(text, DashGlyphs), depth |-> 1],
      [hit |-> MatchNumbered(text), depth |-> 1],
      [hit |-> MatchEnumerator(text, HangulGaHa), depth |-> 2],
      [hit |-> MatchEnumerator(text, LowerLetters), depth |-> 2]>>

\* a classification that tests the list patterns before the heading rules
AddTextBlockListFirst(text, page_num) ==
    IF text = <<>> THEN <<>>
    ELSE
      LET short == Len(text) < 100
          numbered == short /\ MatchNumbered(text)
          cased == short /\ ~numbered
                   /\ (IsUpper(text)
                       \/ (text[1] \in UpperLetters /\ Len(text) < 50))
          keyword == short /\ ~numbered /\ ~cased
                     /\ \E kw \in HeadingKeywords : Contains(Lower(text), kw)
          hits == ListPatternHits(text)
          is_list == \E i \in 1..Len(hits) : hits[i].hit
          first == CHOOSE i \in 1..Len(hits) :
                       hits[i].hit /\ \A j \in 1..(i - 1) : ~hits[j].hit
          leading_spaces == Len(text) - Len(LStrip(text))
      IN  IF is_list
          THEN <<TextBlock(text, "list_item",
                           hits[first].depth
                               + (IF leading_spaces > 4 THEN 1 ELSE 0),
                           page_num)>>
          ELSE IF numbered \/ cased \/ keyword
          THEN <<TextBlock(text, "heading", IF cased THEN 1 ELSE 2, page_num)>>
          ELSE <<TextBlock(text, "paragraph", 0, page_num)>>

\* the blocks _add_text_block appends to self.text_blocks (none or one)
AddTextBlock(text, page_num) ==
    IF text = <<>> THEN <<>>
    ELSE
      LET short == Len(text) < 100
          numbered == short /\ MatchNumbered(text)
          cased == short /\ ~numbered
                   /\ (IsUpper(text)
                       \/ (text[1] \in UpperLetters /\ Len(text) < 50))
          keyword == short /\ ~numbered /\ ~cased
                     /\ \E kw \in HeadingKeywords : Contains(Lower(text), kw)
          is_heading == numbered \/ cased \/ keyword
          heading_level == IF numbered THEN 2
                           ELSE IF cased THEN 1
                           ELSE IF keyword THEN 2 ELSE 0
          hits == ListPatternHits(text)
          is_list == \E i \in 1..Len(hits) : hits[i].hit
          first == CHOOSE i \in 1..Len(hits) :
                       hits[i].hit /\ \A j \in 1..(i - 1) : ~hits[j].hit
          pattern_depth == IF is_list THEN hits[first].depth ELSE 0
          leading_spaces == Len(text) - Len(LStrip(text))
          list_depth == IF leading_spaces > 4 THEN pattern_depth + 1
                        ELSE pattern_depth
      IN  IF is_heading THEN <<TextBlock(text, "heading", heading_level, page_num)>>
          ELSE IF is_list THEN <<TextBlock(text, "list_item", list_depth, page_num)>>
          ELSE <<TextBlock(text, "paragraph", 0, page_num)>>

\* the loop over lines without `line = line.strip()`: a line counts as blank
\* only if it is empty, and keeps its white space
RECURSIVE ParagraphBlocksUnstripped(_, _, _)
ParagraphBlocksUnstripped(lines, current_paragraph, page_num) ==
    IF lines = <<>>
    THEN IF current_paragraph # <<>>
         THEN AddTextBlock(JoinSpace(current_paragraph), page_num)
         ELSE <<>>
    ELSE IF Head(lines) = <<>>
         THEN (IF current_paragraph # <<>>
               THEN AddTextBlock(JoinSpace(current_paragraph), page_num)
               ELSE <<>>)
              \o ParagraphBlocksUnstripped(Tail(lines), <<>>, page_num)
         ELSE ParagraphBlocksUnstripped(Tail(lines),
                                        Append(current_paragraph, Head(lines)),
                                        page_num)

\* the loop over lines of _extract_text_with_layout: the blocks it appends
RECURSIVE ParagraphBlocks(_, _, _)
ParagraphBlocks(lines, current_paragraph, page_num) ==
    IF lines = <<>>
    THEN IF current_paragraph # <<>>
         THEN AddTextBlock(JoinSpace(current_paragraph), page_num)
         ELSE <<>>
    ELSE LET line == Strip(Head(lines))
         IN  IF line = <<>>
             THEN IF current_paragraph # <<>>
                  THEN AddTextBlock(JoinSpace(current_paragraph), page_num)
                       \o ParagraphBlocks(Tail(lines), <<>>, page_num)
                  ELSE ParagraphBlocks(Tail(lines), <<>>, page_num)
             ELSE ParagraphBlocks(Tail(lines), Append(current_paragraph, line),
                                  page_num)

\* the blocks _extract_text_with_layout appends for a page whose
\* extract_text() returned text (<<>> stands for None and for '')
ExtractTextWithLayout(text, page_num) ==
    IF text = <<>> THEN <<>>
    ELSE ParagraphBlocks(SplitLines(text, <<>>), <<>>, page_num)

\* f"[TABLE_{page_num}_{table_idx + 1}]"
TableMarkerText(page_num, table_idx) ==
    <<"[", "T", "A", "B", "L", "E", "_">> \o IntToStr(page_num) \o <<"_">>
        \o IntToStr(table_idx + 1) \o <<"]">>

TableMarker(page_num, table_idx) ==
    TextBlock(TableMarkerText(page_num, table_idx), "table", 0, page_num)

-----------------------------------------------------------------------------
(* TableData, the Confidence Scorer and the validity filter *)

\* a cell is a str, or None
None == <<"<None>">>

TableData(data, page_num, source, confidence, oid) ==
    [data |-> data, page_num |-> page_num, source |-> source,
     confidence |-> confidence, oid |-> oid]

Sources == {"pdfplumber", "camelot_stream", "camelot_lattice"}

\* round(num / den) to the nearest integer, a tie to the even one
RoundHalfEven(num, den) ==
    LET q == num \div den
        r == num % den
    IN  IF 2 * r < den THEN q
        ELSE IF 2 * r > den THEN q + 1
        ELSE IF q % 2 = 0 THEN q ELSE q + 1

\* a cell test without the trimming (`if cell`)
CellFilledUntrimmed(cell) == cell # None /\ cell # <<>>

\* cell and str(cell).strip()
CellFilled(cell) == cell # None /\ cell # <<>> /\ Strip(cell) # <<>>

\* a scorer with the two weights exchanged (0.4 for the fill rate)
CalculateTableConfidenceSwapped(table) ==
    IF table = <<>> THEN 0
    ELSE
      LET col_counts == [i \in 1..Len(table) |-> Len(table[i])]
          total_cells == SumSeq(col_counts)
          non_empty_cells ==
              SumSeq([i \in 1..Len(table) |->
                         Cardinality({j \in 1..Len(table[i]) :
                                          CellFilled(table[i][j])})])
          Count(c) == Cardinality({i \in 1..Len(col_counts) : col_counts[i] = c})
          best == MaxOfSet({Count(c) : c \in Range(col_counts)})
          rows == Len(col_counts)
      IN  IF total_cells = 0 THEN 0
          ELSE RoundHalfEven(4000 * non_empty_cells * rows
                                 + 6000 * best * total_cells,
                             total_cells * rows)

\* _calculate_table_confidence, in hundredths of a percent
CalculateTableConfidence(table) ==
    IF table = <<>> THEN 0
    ELSE
      LET col_counts == [i \in 1..Len(table) |-> Len(table[i])]
          total_cells == SumSeq(col_counts)
          non_empty_cells ==
              SumSeq([i \in 1..Len(table) |->
                         Cardinality({j \in 1..Len(table[i]) :
                                          CellFilled(table[i][j])})])
          Count(c) == Cardinality({i \in 1..Len(col_counts) : col_counts[i] = c})
          most_common_cols ==
              CHOOSE c \in Range(col_counts) :
                  /\ \A d \in Range(col_counts) : Count(d) <= Count(c)
                  /\ \A d \in Range(col_counts) : Count(d) = Count(c) => c <= d
          rows == Len(col_counts)
      IN  IF total_cells = 0 THEN 0
          ELSE \* (fill_rate * 0.6 + consistency_rate * 0.4) * 100, two decimals
               RoundHalfEven(6000 * non_empty_cells * rows
                                 + 4000 * Count(most_common_cols) * total_cells,
                             total_cells * rows)

\* a filter that keeps every non-empty table (`len(...) > 0`)
IsValidTableNonEmpty(rows) == rows # <<>>

\* `table and len(table) > 1` of _extract_with_pdfplumber and
\* `len(table.df) > 1` of _extract_tables_with_camelot
IsValidTable(rows) == rows # <<>> /\ Len(rows) > 1

\* the tables _extract_with_pdfplumber appends for one page: raws is
\* page.extract_tables(), table_idx counts from 0
RECURSIVE PlumberTables(_, _, _)
PlumberTables(raws, page_num, oid) ==
    IF raws = <<>> THEN <<>>
    ELSE IF IsValidTable(Head(raws))
         THEN <<TableData(Head(raws), page_num, "pdfplumber",
                          CalculateTableConfidence(Head(raws)), oid)>>
              \o PlumberTables(Tail(raws), page_num, oid + 1)
         ELSE PlumberTables(Tail(raws), page_num, oid)

\* markers for every table of the page, the dropped ones included
RECURSIVE PlumberMarkersEvery(_, _, _)
PlumberMarkersEvery(raws, page_num, table_idx) ==
    IF raws = <<>> THEN <<>>
    ELSE <<TableMarker(page_num, table_idx)>>
         \o PlumberMarkersEvery(Tail(raws), page_num, table_idx + 1)

\* the table markers _extract_with_pdfplumber appends for one page
RECURSIVE PlumberMarkers(_, _, _)
PlumberMarkers(raws, page_num, table_idx) ==
    IF raws = <<>> THEN <<>>
    ELSE IF IsValidTable(Head(raws))
         THEN <<TableMarker(page_num, table_idx)>>
              \o PlumberMarkers(Tail(raws), page_num, table_idx + 1)
         ELSE PlumberMarkers(Tail(raws), page_num, table_idx + 1)

\* the tables one loop of _extract_tables_with_camelot appends: raws is the
\* TableList of camelot.read_pdf, a table's df is the list of its rows
RECURSIVE CamelotTables(_, _, _)
CamelotTables(raws, source, oid) ==
    IF raws = <<>> THEN <<>>
    ELSE IF IsValidTable(Head(raws).df)
         THEN <<TableData(Head(raws).df, Head(raws).page, source,
                          Head(raws).accuracy, oid)>>
              \o CamelotTables(Tail(raws), source, oid + 1)
         ELSE CamelotTables(Tail(raws), source, oid)

-----------------------------------------------------------------------------
(* The Cross-Validator *)

\* a max that keeps the last of the maximal elements (`>=` for `>`)
RECURSIVE MaxByConfidenceLast(_)
MaxByConfidenceLast(ts) ==
    IF Len(ts) = 1 THEN ts[1]
    ELSE LET rest == MaxByConfidenceLast(SubSeq(ts, 1, Len(ts) - 1))
             last == ts[Len(ts)]
         IN  IF last.confidence >= rest.confidence THEN last ELSE rest

\* max(ts, key=lambda t: t.confidence): the first of the maximal elements
RECURSIVE MaxByConfidence(_)
MaxByConfidence(ts) ==
    IF Len(ts) = 1 THEN ts[1]
    ELSE LET rest == MaxByConfidence(SubSeq(ts, 1, Len(ts) - 1))
             last == ts[Len(ts)]
         IN  IF last.confidence > rest.confidence THEN last ELSE rest

\* the page numbers of ts, in order
PageNums(ts) == [i \in 1..Len(ts) |-> ts[i].page_num]

\* the sources of ts, in order
SourceNames(ts) == [i \in 1..Len(ts) |-> ts[i].source]

\* tables_by_page[page_num]
TablesOfPage(ts, page_num) == SelectSeq(ts, LAMBDA t : t.page_num = page_num)

\* sources[source]
TablesOfSource(ts, source) == SelectSeq(ts, LAMBDA t : t.source = source)

\* f"{confidence:.1f}": tenths of a percent
FormatConfidence(confidence) == RoundHalfEven(confidence, 10)

\* f"Page {page_num}: ... = {source} (...: {confidence:.1f}%)"
SelectedLine(page_num, t) ==
    [kind |-> "selected", page_num |-> page_num, source |-> t.source,
     confidence |-> FormatConfidence(t.confidence)]

\* f"Camelot ...: {str(e)}"
CamelotErrorLine(e) == [kind |-> "camelot_error", message |-> e]

\* best_tables that takes each source's first table instead of its best
BestTablesFirstOfSource(page_tables) ==
    LET sources == KeysInOrder(SourceNames(page_tables), {})
    IN  [i \in 1..Len(sources) |->
            SelectSeq(page_tables, LAMBDA t : t.source = sources[i])[1]]

\* best_tables of one page with several candidates
BestTables(page_tables) ==
    LET sources == KeysInOrder(SourceNames(page_tables), {})
    IN  [i \in 1..Len(sources) |->
            MaxByConfidence(TablesOfSource(page_tables, sources[i]))]

\* a page winner that prefers the first candidate of the page
PageWinnerFirst(page_tables) == page_tables[1]

\* a page winner taken from the source seen first alone: the best table of
\* that source, without the comparison across sources
PageWinnerFirstSource(page_tables) ==
    IF Len(page_tables) = 1 THEN page_tables[1]
    ELSE BestTables(page_tables)[1]

\* the table appended to validated_tables for one page
PageWinner(page_tables) ==
    IF Len(page_tables) = 1 THEN page_tables[1]
    ELSE MaxByConfidence(BestTables(page_tables))

\* a report line for every page, the single-candidate ones included
PageReportAlways(page_num, page_tables) ==
    <<[kind |-> "selected", page_num |-> page_num,
       source |-> PageWinner(page_tables).source,
       confidence |-> FormatConfidence(PageWinner(page_tables).confidence)]>>

\* the lines appended to comparison_report for one page
PageReport(page_num, page_tables) ==
    IF Len(page_tables) = 1 THEN <<>>
    ELSE <<SelectedLine(page_num, PageWinner(page_tables))>>

\* validated_tables that keeps every source-level winner of a page
ValidatedTablesAllSources(ts) ==
    LET pages == KeysInOrder(PageNums(ts), {})
    IN  FlattenSeq([i \in 1..Len(pages) |->
            LET page_tables == SelectSeq(ts, LAMBDA t : t.page_num = pages[i])
            IN  IF Len(page_tables) = 1 THEN page_tables
                ELSE BestTables(page_tables)])

\* validated_tables that skips a winner of confidence 0 (`if best.confidence`)
ValidatedTablesDropZero(ts) ==
    LET pages == KeysInOrder(PageNums(ts), {})
        winners == [i \in 1..Len(pages) |->
                       PageWinner(SelectSeq(ts, LAMBDA t : t.page_num = pages[i]))]
    IN  SelectSeq(winners, LAMBDA t : t.confidence # 0)

\* validated_tables of _cross_validate_tables
ValidatedTables(ts) ==
    LET pages == KeysInOrder(PageNums(ts), {})
    IN  [i \in 1..Len(pages) |-> PageWinner(TablesOfPage(ts, pages[i]))]

\* the lines _cross_validate_tables appends to comparison_report
ValidationReport(ts) ==
    LET pages == KeysInOrder(PageNums(ts), {})
    IN  FlattenSeq([i \in 1..Len(pages) |->
                       PageReport(pages[i], TablesOfPage(ts, pages[i]))])

-----------------------------------------------------------------------------
(* The inputs of a run: what the document's pages and the backends yield *)

CellA == <<"a">>

CellEmpty == <<>>

\* page.extract_text() of a page: no text, or a heading and a list item
\* separated by a blank line
PageTexts ==
    {<<>>,
     <<"I", "n", "t", "r", "o", "\n", " ", "\n", "-", " ", "a">>}

\* a table of page.extract_tables(): None, a single row, two rows half
\* filled, two rows of empty cells
PlumberRaw ==
    {<<>>,
     <<<<CellA>>>>,
     <<<<CellA>>, <<CellEmpty>>>>,
     <<<<CellEmpty>>, <<None>>>>}

\* table.accuracy of a camelot table, in hundredths of a percent
Accuracies == {0, 4000, 6000, 8500, 9000}

\* a table of camelot.read_pdf: two rows with any accuracy, or a single row
CamelotRaw ==
    {[df |-> <<<<CellA>>, <<CellA>>>>, page |-> p, accuracy |-> a] :
        p \in 1..numPages, a \in Accuracies}
    \cup {[df |-> <<<<CellA>>>>, page |-> p, accuracy |-> 9000] :
             p \in 1..numPages}

\* str(e) of the exception a backend raises
Errors == {"read_pdf failed"}

\* the number of tables the backends have returned so far
RawTotal == raw["pdfplumber"] + raw["camelot_stream"] + raw["camelot_lattice"]

-----------------------------------------------------------------------------
(* main and PDFExtractor.__init__ *)

\* what main is started with: no argument, a path that names no file, a
\* path that names a PDF file
PdfFiles == {"<no argument>", "missing.pdf", "input.pdf"}

\* the lists PDFExtractor.__init__ creates, and the history of a run that
\* has not called a backend
Fresh ==
    /\ page = 0
    /\ text_blocks = <<>>
    /\ tables = <<>>
    /\ comparison_report = <<>>
    /\ candidates = <<>>
    /\ calls = [s \in Sources |-> "none"]
    /\ raw = [s \in Sources |-> 0]
    /\ files = <<>>

\* main has not run
NoMain ==
    /\ printed = <<>>
    /\ exit_code = <<>>
    /\ output_dir = FALSE

\* the process starts: main is about to run
Init ==
    /\ pc = "main"
    /\ pdf_file \in PdfFiles
    /\ numPages \in IF pdf_file = "input.pdf" THEN 1..MaxPages ELSE {0}
    /\ NoMain
    /\ Fresh
    /\ arg = <<>>
    /\ result = <<>>

\* main without an argument: the usage line, then sys.exit(1)
MainNoArgument ==
    /\ pc = "main"
    /\ pdf_file = "<no argument>"
    /\ printed' = Append(printed, "usage")
    /\ exit_code' = <<1>>
    /\ pc' = "exited"
    /\ UNCHANGED <<pdf_file, output_dir, callVars, numPages, page, text_blocks,
                   tables, comparison_report, candidates, calls, raw, files>>

\* a missing file found only by the extractor: the constructor has already
\* made the output directory when the run ends
MainFileNotFoundLate ==
    /\ pc = "main"
    /\ pdf_file \notin {"<no argument>", "input.pdf"}
    /\ printed' = Append(printed, "file not found")
    /\ exit_code' = <<1>>
    /\ output_dir' = TRUE
    /\ pc' = "exited"
    /\ UNCHANGED <<pdf_file, callVars, numPages, page, text_blocks,
                   tables, comparison_report, candidates, calls, raw, files>>

\* main with a path for which Path(pdf_file).exists() is false: the error
\* line, then sys.exit(1)
MainFileNotFound ==
    /\ pc = "main"
    /\ pdf_file \notin {"<no argument>", "input.pdf"}
    /\ printed' = Append(printed, "file not found")
    /\ exit_code' = <<1>>
    /\ pc' = "exited"
    /\ UNCHANGED <<pdf_file, output_dir, callVars, numPages, page, text_blocks,
                   tables, comparison_report, candidates, calls, raw, files>>

\* main with the path of a file: PDFExtractor(pdf_file) makes the output
\* directory and the empty lists, and extract_all starts
MainExtract ==
    /\ pc = "main"
    /\ pdf_file = "input.pdf"
    /\ output_dir' = TRUE
    /\ text_blocks' = <<>>
    /\ tables' = <<>>
    /\ comparison_report' = <<>>
    /\ pc' = "open"
    /\ UNCHANGED <<pdf_file, printed, exit_code, callVars, numPages, page,
                   candidates, calls, raw, files>>

-----------------------------------------------------------------------------
(* extract_all *)

\* pdfplumber.open(...) succeeds: the loop over pdf.pages starts
PlumberOpen ==
    /\ pc = "open"
    /\ pc' = "pages"
    /\ page' = 1
    /\ UNCHANGED <<mainVars, callVars,
                   numPages, text_blocks, tables, comparison_report,
                   candidates, calls, raw, files>>

\* pdfplumber.open(...) raises: nothing in extract_all catches it
PlumberOpenFails ==
    /\ pc = "open"
    /\ pc' = "aborted"
    /\ calls' = [calls EXCEPT !["pdfplumber"] = "threw"]
    /\ UNCHANGED <<mainVars, callVars,
                   numPages, page, text_blocks, tables, comparison_report,
                   candidates, raw, files>>

\* one iteration of the loop of _extract_with_pdfplumber
PlumberPage ==
    /\ pc = "pages"
    /\ \E text \in PageTexts, raws \in SeqsUpTo(PlumberRaw, MaxRaw - RawTotal) :
        /\ text_blocks' = text_blocks \o ExtractTextWithLayout(text, page)
                              \o PlumberMarkers(raws, page, 0)
        /\ tables' = tables \o PlumberTables(raws, page, Len(tables) + 1)
        /\ raw' = [raw EXCEPT !["pdfplumber"] = @ + Len(raws)]
    /\ page' = page + 1
    /\ pc' = IF page = numPages THEN "stream" ELSE "pages"
    /\ calls' = IF page = numPages
                THEN [calls EXCEPT !["pdfplumber"] = "ok"] ELSE calls
    /\ UNCHANGED <<mainVars, callVars,
                   numPages, comparison_report, candidates, files>>

\* page.extract_text() or page.extract_tables() raises on the current page:
\* nothing in extract_all catches it
PlumberPageFails ==
    /\ pc = "pages"
    /\ \/ UNCHANGED text_blocks
       \/ \E text \in PageTexts :
            text_blocks' = text_blocks \o ExtractTextWithLayout(text, page)
    /\ pc' = "aborted"
    /\ calls' = [calls EXCEPT !["pdfplumber"] = "threw"]
    /\ UNCHANGED <<mainVars, callVars,
                   numPages, page, tables, comparison_report, candidates,
                   raw, files>>

\* camelot.read_pdf(flavor='stream') returns and its tables are filtered
CamelotStream ==
    /\ pc = "stream"
    /\ \E raws \in SeqsUpTo(CamelotRaw, MaxRaw - RawTotal) :
        /\ tables' = tables \o CamelotTables(raws, "camelot_stream",
                                             Len(tables) + 1)
        /\ raw' = [raw EXCEPT !["camelot_stream"] = @ + Len(raws)]
    /\ pc' = "lattice"
    /\ calls' = [calls EXCEPT !["camelot_stream"] = "ok"]
    /\ UNCHANGED <<mainVars, callVars,
                   numPages, page, text_blocks, comparison_report,
                   candidates, files>>

\* camelot.read_pdf(flavor='stream') raises: the outer except records the
\* error and the method returns, the lattice call is skipped
CamelotStreamFails ==
    /\ pc = "stream"
    /\ \E e \in Errors :
        comparison_report' = Append(comparison_report, CamelotErrorLine(e))
    /\ pc' = "cross_validate"
    /\ calls' = [calls EXCEPT !["camelot_stream"] = "threw"]
    /\ UNCHANGED <<mainVars, callVars,
                   numPages, page, text_blocks, tables, candidates, raw,
                   files>>

\* camelot.read_pdf(flavor='lattice') returns and its tables are filtered
CamelotLattice ==
    /\ pc = "lattice"
    /\ \E raws \in SeqsUpTo(CamelotRaw, MaxRaw - RawTotal) :
        /\ tables' = tables \o CamelotTables(raws, "camelot_lattice",
                                             Len(tables) + 1)
        /\ raw' = [raw EXCEPT !["camelot_lattice"] = @ + Len(raws)]
    /\ pc' = "cross_validate"
    /\ calls' = [calls EXCEPT !["camelot_lattice"] = "ok"]
    /\ UNCHANGED <<mainVars, callVars,
                   numPages, page, text_blocks, comparison_report,
                   candidates, files>>

\* a lattice failure handled like a stream failure would be without the
\* inner try: the tables collected so far are lost with the exception
CamelotLatticeFailsUncaught ==
    /\ pc = "lattice"
    /\ pc' = "aborted"
    /\ calls' = [calls EXCEPT !["camelot_lattice"] = "threw"]
    /\ UNCHANGED <<mainVars, callVars,
                   numPages, page, text_blocks, tables, comparison_report,
                   candidates, raw, files>>

\* camelot.read_pdf(flavor='lattice') raises: the inner bare except passes
CamelotLatticeFails ==
    /\ pc = "lattice"
    /\ pc' = "cross_validate"
    /\ calls' = [calls EXCEPT !["camelot_lattice"] = "threw"]
    /\ UNCHANGED <<mainVars, callVars,
                   numPages, page, text_blocks, tables, comparison_report,
                   candidates, raw, files>>

\* _cross_validate_tables
CrossValidate ==
    /\ pc = "cross_validate"
    /\ candidates' = tables
    /\ tables' = ValidatedTables(tables)
    /\ comparison_report' = comparison_report \o ValidationReport(tables)
    /\ pc' = "save"
    /\ UNCHANGED <<mainVars, callVars,
                   numPages, page, text_blocks, calls, raw, files>>

\* int(digits) for a non-empty string of decimal digits
RECURSIVE StrToInt(_)
StrToInt(digits) ==
    LET d == CHOOSE v \in 0..9 : DigitOf[v + 1] = digits[Len(digits)]
    IN  IF Len(digits) = 1 THEN d
        ELSE 10 * StrToInt(SubSeq(digits, 1, Len(digits) - 1)) + d

\* the length of the longest prefix of s made of digits
RECURSIVE DigitRun(_)
DigitRun(s) ==
    IF s # <<>> /\ Head(s) \in Digits THEN 1 + DigitRun(Tail(s)) ELSE 0

\* re.match(r'\[TABLE_(\d+)_(\d+)\]', text): the two groups as integers
MatchTableMarker(text) ==
    LET prefix == <<"[", "T", "A", "B", "L", "E", "_">>
        rest1 == SubSeq(text, Len(prefix) + 1, Len(text))
        n1 == DigitRun(rest1)
        rest2 == SubSeq(rest1, n1 + 2, Len(rest1))
        n2 == DigitRun(rest2)
    IN  IF /\ Len(text) > Len(prefix)
           /\ SubSeq(text, 1, Len(prefix)) = prefix
           /\ n1 >= 1
           /\ Len(rest1) >= n1 + 1
           /\ rest1[n1 + 1] = "_"
           /\ n2 >= 1
           /\ Len(rest2) >= n2 + 1
           /\ rest2[n2 + 1] = "]"
        THEN [matched |-> TRUE,
              page_num |-> StrToInt(SubSeq(rest1, 1, n1)),
              table_idx |-> StrToInt(SubSeq(rest2, 1, n2))]
        ELSE [matched |-> FALSE, page_num |-> 0, table_idx |-> 0]

\* a lookup that takes the first table of self.tables, whatever its page
TableIgnoringPage(page_num) ==
    IF tables = <<>> THEN <<>> ELSE <<tables[1]>>

\* the first table of self.tables with the page number, as a sequence of
\* none or one table (the for ... break loops of the renderers)
FirstTableOfPage(page_num) ==
    LET hits == SelectSeq(tables, LAMBDA t : t.page_num = page_num)
    IN  IF hits = <<>> THEN <<>> ELSE <<hits[1]>>

\* a page section in front of every block, page change or not
MarkdownPageBreakAlways(block, current_page) ==
    <<[md |-> "page", page_num |-> block.page_num]>>

\* what a change of page appends to md_lines
MarkdownPageBreak(block, current_page) ==
    IF block.page_num # current_page
    THEN <<[md |-> "page", page_num |-> block.page_num]>>
    ELSE <<>>

\* what one block appends to md_lines after the page section
MarkdownOfBlock(block) ==
    IF block.block_type = "heading"
    THEN <<[md |-> "heading", hashes |-> block.level + 1, text |-> block.text]>>
    ELSE IF block.block_type = "list_item"
    THEN <<[md |-> "list_item",
            indent |-> IF block.level > 1 THEN 2 * (block.level - 1) ELSE 0,
            text |-> block.text]>>
    ELSE IF block.block_type = "table"
    THEN LET m == MatchTableMarker(block.text)
             found == IF m.matched THEN FirstTableOfPage(m.page_num) ELSE <<>>
         IN  IF found = <<>> THEN <<>>
             ELSE <<[md |-> "table_title", table_idx |-> m.table_idx]>>
                  \o (IF found[1].data # <<>>
                      THEN <<[md |-> "table", headers |-> found[1].data[1],
                              rows |-> IF Len(found[1].data) > 1
                                       THEN Tail(found[1].data)
                                       ELSE found[1].data],
                             [md |-> "table_source", source |-> found[1].source,
                              confidence |-> FormatConfidence(found[1].confidence)]>>
                      ELSE <<>>)
    ELSE <<[md |-> "paragraph", text |-> block.text]>>

\* md_lines of _save_markdown
RECURSIVE SaveMarkdown(_, _)
SaveMarkdown(blocks, current_page) ==
    IF blocks = <<>> THEN <<>>
    ELSE MarkdownPageBreak(Head(blocks), current_page)
         \o MarkdownOfBlock(Head(blocks))
         \o SaveMarkdown(Tail(blocks), Head(blocks).page_num)

\* what a change of page appends to html_lines
HtmlPageBreak(block, current_page) ==
    IF block.page_num # current_page
    THEN (IF current_page > 0 THEN <<[html |-> "/div"]>> ELSE <<>>)
         \o <<[html |-> "div", page_num |-> block.page_num]>>
    ELSE <<>>

\* what one block appends to html_lines after the page container
HtmlOfBlock(block) ==
    IF block.block_type = "heading"
    THEN <<[html |-> "h",
            h |-> IF block.level + 2 < 6 THEN block.level + 2 ELSE 6,
            text |-> block.text]>>
    ELSE IF block.block_type = "list_item"
    THEN <<[html |-> "list-item",
            class |-> IF block.level > 1 THEN block.level ELSE 0,
            text |-> block.text]>>
    ELSE IF block.block_type = "table"
    THEN LET m == MatchTableMarker(block.text)
             found == IF m.matched THEN FirstTableOfPage(m.page_num) ELSE <<>>
         IN  IF found = <<>> THEN <<>>
             ELSE <<[html |-> "h3", table_idx |-> m.table_idx]>>
                  \o (IF found[1].data # <<>>
                      THEN <<[html |-> "table", thead |-> found[1].data[1],
                              tbody |-> Tail(found[1].data)],
                             [html |-> "table-info", source |-> found[1].source,
                              confidence |-> FormatConfidence(found[1].confidence)]>>
                      ELSE <<>>)
    ELSE <<[html |-> "p", text |-> block.text]>>

\* html_lines of _save_html between the fixed head and '</body></html>'
RECURSIVE SaveHtmlBlocks(_, _)
SaveHtmlBlocks(blocks, current_page) ==
    IF blocks = <<>>
    THEN IF current_page > 0 THEN <<[html |-> "/div"]>> ELSE <<>>
    ELSE HtmlPageBreak(Head(blocks), current_page)
         \o HtmlOfBlock(Head(blocks))
         \o SaveHtmlBlocks(Tail(blocks), Head(blocks).page_num)

\* data of _save_json (without the constant 'pdf_file')
SaveJson ==
    LET pages == KeysInOrder(PageNums(text_blocks), {})
        BlocksOf(p) ==
            SelectSeq(text_blocks,
                      LAMBDA b : b.page_num = p /\ b.block_type # "table")
        TablesOf(p) == SelectSeq(tables, LAMBDA t : t.page_num = p)
    IN  [total_pages |-> IF text_blocks # <<>>
                         THEN MaxOfSet({text_blocks[i].page_num :
                                           i \in 1..Len(text_blocks)})
                         ELSE 0,
         total_blocks |-> Len(text_blocks),
         total_tables |-> Len(tables),
         content |->
            [i \in 1..Len(pages) |->
                [page_number |-> pages[i],
                 blocks |-> [k \in 1..Len(BlocksOf(pages[i])) |->
                               [type |-> BlocksOf(pages[i])[k].block_type,
                                level |-> BlocksOf(pages[i])[k].level,
                                text |-> BlocksOf(pages[i])[k].text]],
                 tables |-> [k \in 1..Len(TablesOf(pages[i])) |->
                               [source |-> TablesOf(pages[i])[k].source,
                                confidence |-> TablesOf(pages[i])[k].confidence,
                                data |-> TablesOf(pages[i])[k].data]]]]]

\* the name of the CSV file of the idx-th table
CsvPath(table, idx) ==
    <<"tables/page">> \o IntToStr(table.page_num) \o <<"_table">>
        \o IntToStr(idx) \o <<".csv">>

\* f'Page{table.page_num}_T{idx}'[:31]
SheetName(table, idx) ==
    LET name == <<"P", "a", "g", "e">> \o IntToStr(table.page_num)
                    \o <<"_", "T">> \o IntToStr(idx)
    IN  SubSeq(name, 1, IF Len(name) < 31 THEN Len(name) ELSE 31)

\* pd.DataFrame(table.data[1:], columns=table.data[0]); the tables of the
\* inputs are rectangular, so the construction succeeds
DataFrame(table) == [columns |-> table.data[1], rows |-> Tail(table.data)]

\* the files _save_tables writes, with their contents
SaveTables ==
    IF tables = <<>> THEN <<>>
    ELSE LET with_data == {i \in 1..Len(tables) : tables[i].data # <<>>}
             csv == {CsvPath(tables[i], i) : i \in with_data}
             idx(f) == CHOOSE i \in with_data : CsvPath(tables[i], i) = f
         IN  [f \in csv \cup {<<"tables/all_tables.xlsx">>} |->
                IF f = <<"tables/all_tables.xlsx">>
                THEN {[sheet_name |-> SheetName(tables[i], i),
                       df |-> DataFrame(tables[i])] : i \in with_data}
                ELSE DataFrame(tables[idx(f)])]

ReportPath == <<"comparison_report.txt">>

\* step 5 of _save_results with the test `if self.comparison_report` dropped
SavedReportAlways == [f \in {ReportPath} |-> comparison_report]

\* step 5 of _save_results: the report file, if there is a report
SavedReport ==
    IF comparison_report # <<>>
    THEN [f \in {ReportPath} |-> comparison_report]
    ELSE <<>>

\* the files _save_results writes, with their contents
SavedFiles ==
    LET rendered ==
            [f \in {<<"extracted_text.md">>, <<"extracted_text.html">>,
                    <<"extracted_data.json">>} |->
                IF f = <<"extracted_text.md">>
                THEN SaveMarkdown(text_blocks, 0)
                ELSE IF f = <<"extracted_text.html">>
                THEN SaveHtmlBlocks(text_blocks, 0)
                ELSE SaveJson]
    IN  rendered @@ SaveTables @@ SavedReport

\* _save_results
SaveResults ==
    /\ pc = "save"
    /\ files' = SavedFiles
    /\ pc' = "done"
    /\ UNCHANGED <<mainVars, callVars,
                   numPages, page, text_blocks, tables, comparison_report,
                   candidates, calls, raw>>

Next ==
    \/ MainNoArgument
    \/ MainFileNotFound
    \/ MainExtract
    \/ PlumberOpen
    \/ PlumberOpenFails
    \/ PlumberPage
    \/ PlumberPageFails
    \/ CamelotStream
    \/ CamelotStreamFails
    \/ CamelotLattice
    \/ CamelotLatticeFails
    \/ CrossValidate
    \/ SaveResults

Spec == Init /\ [][Next]_vars

-----------------------------------------------------------------------------
(* Vocabulary of the properties *)

\* _cross_validate_tables has returned
Validated == pc \in {"save", "done"}

MaxOf(S) == CHOOSE x \in S : \A y \in S : y <= x

MinOf(S) == CHOOSE x \in S : \A y \in S : x <= y

\* the candidates of page p, by their position in extraction order
CandidatesOn(p) == {i \in 1..Len(candidates) : candidates[i].page_num = p}

CandidatePages == {candidates[i].page_num : i \in 1..Len(candidates)}

\* the pages that needed a comparison
ComparedPages == {p \in CandidatePages : Cardinality(CandidatesOn(p)) > 1}

\* the validated tables of page p, by their position in self.tables
WinnersOn(p) == {i \in 1..Len(tables) : tables[i].page_num = p}

\* the sources that have a candidate on page p
SourcesOn(p) == {candidates[i].source : i \in CandidatesOn(p)}

\* the best confidence source s reaches on page p
SourceBest(p, s) ==
    MaxOf({candidates[i].confidence :
              i \in {j \in CandidatesOn(p) : candidates[j].source = s}})

\* the position of the first candidate of source s on page p
SourceFirst(p, s) ==
    MinOf({j \in CandidatesOn(p) : candidates[j].source = s})

\* the positions in `report` of the audit lines of page p
AuditLinesOf(report, p) ==
    {k \in 1..Len(report) :
        report[k].kind = "selected" /\ report[k].page_num = p}

\* the tables of source s in ts
TablesFrom(ts, s) == {i \in 1..Len(ts) : ts[i].source = s}

ReportWritten == ReportPath \in DOMAIN files

-----------------------------------------------------------------------------
(* Cross-validation *)

\* C1: after _cross_validate_tables, self.tables holds exactly one table for
\* every page that had a candidate, no table of any other page, and every
\* table it holds is one of the candidates
C1_OneTablePerCandidatePage ==
    Validated =>
        /\ \A p \in CandidatePages : Cardinality(WinnersOn(p)) = 1
        /\ \A i \in 1..Len(tables) :
              /\ tables[i].page_num \in CandidatePages
              /\ \E j \in CandidatesOn(tables[i].page_num) :
                    candidates[j] = tables[i]

\* a two-page run: page 1 had several candidates, page 2 none
C1_Witness ==
    /\ Validated
    /\ numPages = 2
    /\ Cardinality(CandidatesOn(1)) >= 2
    /\ CandidatesOn(2) = {}
    /\ Len(tables) = 1

\* the candidates of page p are (A, 40), (A, 90), (B, 60) for sources A # B
IsExamplePage(p) ==
    /\ Cardinality(CandidatesOn(p)) = 3
    /\ \E a, b, c \in CandidatesOn(p) :
          /\ candidates[a].source = candidates[b].source
          /\ candidates[c].source # candidates[a].source
          /\ candidates[a].confidence = 4000
          /\ candidates[b].confidence = 9000
          /\ candidates[c].confidence = 6000

\* C2: on a page with several candidates the winner is the best of its own
\* source and no source has a better candidate; for the candidates (A, 40),
\* (A, 90), (B, 60) the winner is (A, 90)
C2_TwoStageReduction ==
    Validated =>
        \A p \in ComparedPages :
            /\ WinnersOn(p) # {}
            /\ \A i \in WinnersOn(p) :
                  /\ tables[i].confidence = SourceBest(p, tables[i].source)
                  /\ \A s \in SourcesOn(p) :
                        SourceBest(p, s) <= tables[i].confidence
                  /\ IsExamplePage(p) =>
                        /\ tables[i].confidence = 9000
                        /\ \E a \in CandidatesOn(p) :
                              /\ candidates[a].confidence = 4000
                              /\ candidates[a].source = tables[i].source

\* the run of the example: one source gave 40 and 90, another 60
C2_Witness ==
    /\ Validated
    /\ \E p \in ComparedPages :
          /\ IsExamplePage(p)
          /\ \E i \in WinnersOn(p) : tables[i].confidence = 9000

\* C3: the only candidate of a page is the validated table of the page,
\* whatever its confidence, and no comparison is reported for the page
C3_SingleCandidateShortcut ==
    Validated =>
        \A p \in CandidatePages :
            Cardinality(CandidatesOn(p)) = 1 =>
                /\ \A j \in CandidatesOn(p) :
                      \E i \in WinnersOn(p) : tables[i] = candidates[j]
                /\ AuditLinesOf(comparison_report, p) = {}

\* a page whose only candidate has confidence 0, and is kept
C3_Witness ==
    /\ Validated
    /\ \E p \in CandidatePages :
          /\ Cardinality(CandidatesOn(p)) = 1
          /\ \A j \in CandidatesOn(p) : candidates[j].confidence = 0
          /\ WinnersOn(p) # {}

\* C4: ties go to the first encountered: the winner is the earliest of its
\* source's candidates with its confidence, and its source is the earliest
\* seen of the sources that reach that confidence
C4_TieBreakFirstEncountered ==
    Validated =>
        \A p \in ComparedPages :
            /\ WinnersOn(p) # {}
            /\ \A i \in WinnersOn(p), j \in CandidatesOn(p) :
                  candidates[j].confidence = tables[i].confidence =>
                      /\ candidates[j].source = tables[i].source =>
                            tables[i].oid <= candidates[j].oid
                      /\ SourceFirst(p, tables[i].source)
                            <= SourceFirst(p, candidates[j].source)

\* a page where two candidates of one source and a candidate of another
\* source all have the winning confidence
C4_Witness ==
    /\ Validated
    /\ \E p \in ComparedPages :
          \E i \in WinnersOn(p) :
              \E j, k, l \in CandidatesOn(p) :
                  /\ j # k
                  /\ candidates[j].source = candidates[k].source
                  /\ candidates[l].source # candidates[j].source
                  /\ candidates[j].confidence = tables[i].confidence
                  /\ candidates[k].confidence = tables[i].confidence
                  /\ candidates[l].confidence = tables[i].confidence

-----------------------------------------------------------------------------
(* Extraction, failures and the audit report *)

\* C5: when _cross_validate_tables starts, every table of self.tables has at
\* least 2 rows, whichever backend produced it, and the report holds no line
\* about a dropped table (at most the line of a failed camelot call)
C5_DiscardInvariant ==
    pc = "cross_validate" =>
        /\ \A i \in 1..Len(tables) : Len(tables[i].data) >= 2
        /\ \A k \in 1..Len(comparison_report) :
              /\ comparison_report[k].kind = "camelot_error"
              /\ calls["camelot_stream"] = "threw"
        /\ Len(comparison_report) <= 1

\* each of the three backends returned a table that was dropped
C5_Witness ==
    /\ pc = "cross_validate"
    /\ \A s \in Sources : raw[s] > Cardinality(TablesFrom(tables, s))
    /\ comparison_report = <<>>

\* C6: after _cross_validate_tables the report holds exactly one audit line
\* for every page with several candidates, naming the page, the winner's
\* source and its confidence, no audit line for any other page, and beside
\* the audit lines only the error line of a failed camelot call
C6_AuditLines ==
    Validated =>
        /\ \A p \in CandidatePages :
              Cardinality(AuditLinesOf(comparison_report, p))
                  = IF p \in ComparedPages THEN 1 ELSE 0
        /\ \A k \in 1..Len(comparison_report) :
              IF comparison_report[k].kind = "selected"
              THEN /\ comparison_report[k].page_num \in ComparedPages
                   /\ \E i \in WinnersOn(comparison_report[k].page_num) :
                         /\ comparison_report[k].source = tables[i].source
                         /\ 10 * comparison_report[k].confidence
                               - tables[i].confidence \in -5..5
              ELSE /\ comparison_report[k].kind = "camelot_error"
                   /\ calls["camelot_stream"] = "threw"

\* a run with a page of several candidates and a page of exactly one
C6_Witness ==
    /\ Validated
    /\ ComparedPages # {}
    /\ CandidatePages \ ComparedPages # {}
    /\ Len(comparison_report) = 1

\* C7 as stated: the audit file exists exactly if some page had several
\* candidates, and holds one line per such page and nothing else
C7_AuditFileOnlyForComparedPages ==
    pc = "done" =>
        /\ ReportWritten <=> ComparedPages # {}
        /\ ReportWritten =>
              /\ Len(files[ReportPath]) = Cardinality(ComparedPages)
              /\ \A p \in ComparedPages :
                    Cardinality(AuditLinesOf(files[ReportPath], p)) = 1

\* C7, amended: in a run that reaches _save_results the audit file exists
\* exactly if some page had several candidates or the stream-style camelot
\* call raised; it holds the error line of that call, if it raised, then one
\* line per page with several candidates, and nothing else; a run that does
\* not reach _save_results writes no audit file
C7_AuditFileAmended ==
    LET failed == calls["camelot_stream"] = "threw"
        errors == IF failed THEN 1 ELSE 0
    IN  /\ pc # "done" => ~ReportWritten
        /\ pc = "done" =>
              /\ ReportWritten <=> (ComparedPages # {} \/ failed)
              /\ ReportWritten =>
                    /\ Len(files[ReportPath]) = errors + Cardinality(ComparedPages)
                    /\ failed => files[ReportPath][1].kind = "camelot_error"
                    /\ \A p \in ComparedPages :
                          Cardinality(AuditLinesOf(files[ReportPath], p)) = 1

\* a finished run in which the stream-style call raised and a page had
\* several candidates
C7_Witness ==
    /\ pc = "done"
    /\ calls["camelot_stream"] = "threw"
    /\ ComparedPages # {}
    /\ ReportWritten
    /\ Len(files[ReportPath]) = 2

\* the document of the end-to-end example: two pages, on page 1 a pdfplumber
\* table of confidence 70 and a stream table of confidence 85, nothing else
C8_Document ==
    /\ numPages = 2
    /\ Len(candidates) = 2
    /\ candidates[1].source = "pdfplumber"
    /\ candidates[1].page_num = 1
    /\ candidates[1].confidence = 7000
    /\ candidates[2].source = "camelot_stream"
    /\ candidates[2].page_num = 1
    /\ candidates[2].confidence = 8500

\* C8: the run on that document ends with the stream table of page 1 as the
\* only validated table and an audit report of one line, about page 1
C8_EndToEnd ==
    (pc = "done" /\ C8_Document) =>
        /\ tables = <<candidates[2]>>
        /\ WinnersOn(2) = {}
        /\ ReportWritten
        /\ files[ReportPath]
              = <<[kind |-> "selected", page_num |-> 1,
                   source |-> "camelot_stream", confidence |-> 850]>>

\* the run on that document has finished
C8_Witness == pc = "done" /\ C8_Document /\ Len(tables) = 1

\* C9 as stated: a backend that raised contributes no candidate, leaves a
\* diagnostic line in the report, does not end the run, and every other
\* backend has been invoked when cross-validation starts
C9_BackendUnavailable ==
    \A b \in Sources :
        calls[b] = "threw" =>
            /\ TablesFrom(tables, b) = {} /\ TablesFrom(candidates, b) = {}
            /\ \E k \in 1..Len(comparison_report) :
                  comparison_report[k].kind = "camelot_error"
            /\ pc # "aborted"
            /\ pc \in {"cross_validate", "save", "done"} =>
                  \A o \in Sources \ {b} : calls[o] = "ok"

\* C10: once the lattice-style call has raised, the run is never aborted and
\* no lattice table is among the candidates; the step in which it raises
\* leaves self.tables as the earlier backends filled it and goes on to
\* cross-validation
C10_LatticeFailureSwallowed ==
    /\ [](calls["camelot_lattice"] = "threw" =>
              /\ pc \in {"cross_validate", "save", "done"}
              /\ TablesFrom(tables, "camelot_lattice") = {}
              /\ TablesFrom(candidates, "camelot_lattice") = {})
    /\ [][(calls["camelot_lattice"] # "threw"
               /\ calls'["camelot_lattice"] = "threw") =>
              (tables' = tables /\ pc' = "cross_validate")]_vars

\* the lattice-style call raised after both other backends gave candidates
C10_Witness ==
    /\ pc = "cross_validate"
    /\ calls["camelot_lattice"] = "threw"
    /\ TablesFrom(tables, "pdfplumber") # {}
    /\ TablesFrom(tables, "camelot_stream") # {}

-----------------------------------------------------------------------------
(* Failures of a backend and missing input *)

\* pages 1..p of the document have been through the loop of
\* _extract_with_pdfplumber
PagesProcessed == IF pc \in {"main", "exited", "open"} THEN 0 ELSE page - 1

\* C11 as stated: no failure of a backend ends the run: a run in which a
\* backend raised is never aborted, and when it reaches cross-validation
\* every page of the document has been processed
C11_NoBackendFailureAborts ==
    /\ pc # "aborted"
    /\ \A b \in Sources :
          (calls[b] = "threw" /\ pc \in {"cross_validate", "save", "done"})
              => PagesProcessed = numPages

\* C12: a run started without a path, or with a path that names no file, has
\* made no output directory, written no file and called no backend; when it
\* has ended it has printed an error and called sys.exit with a non-zero
\* status; and the only step it takes is the one from main to the exit
C12_MissingInput ==
    /\ [](pdf_file # "input.pdf" =>
              /\ pc \in {"main", "exited"}
              /\ ~output_dir
              /\ Fresh
              /\ pc = "exited" =>
                    /\ Len(printed) = 1
                    /\ Len(exit_code) = 1
                    /\ exit_code[1] # 0)
    /\ [][(pc = "main" /\ pdf_file # "input.pdf") => pc' = "exited"]_vars
    /\ [](pc = "exited" => pdf_file # "input.pdf")

\* main has ended on a path that names no file
C12_Witness ==
    /\ pc = "exited"
    /\ pdf_file = "missing.pdf"
    /\ exit_code = <<1>>

-----------------------------------------------------------------------------
(* _calculate_table_confidence called on its own *)

\* the fields of the extractor and the history of its run
runVars == <<numPages, page, text_blocks, tables, comparison_report,
             candidates, calls, raw, files>>

\* an extractor constructed for a one-page file by a caller other than main:
\* the constructor has made the output directory
Constructed ==
    /\ pdf_file = "input.pdf"
    /\ numPages = 1
    /\ printed = <<>>
    /\ exit_code = <<>>
    /\ output_dir = TRUE

\* a method of a new extractor is called on its own: extract_all does not
\* run
Standalone == Constructed /\ Fresh

\* the most rows of a table given to the scorer
MaxScoreRows == 2

\* the most cells of a row of such a table
MaxScoreCols == 2

\* a cell: a text, '', a blank text, None
ScoreCells == {CellA, CellEmpty, <<" ">>, None}

\* [["a","b"],["","d"],["e","f","g"]]
ExampleRows ==
    <<<<<<"a">>, <<"b">>>>, <<<<>>, <<"d">>>>, <<<<"e">>, <<"f">>, <<"g">>>>>>

\* the tables given to the scorer: rows of different lengths included
ScoreTables ==
    SeqsUpTo(SeqsUpTo(ScoreCells, MaxScoreCols), MaxScoreRows)
        \cup {ExampleRows}

InitScore ==
    /\ pc = "score"
    /\ arg \in ScoreTables
    /\ result = <<>>
    /\ Standalone

\* self._calculate_table_confidence(arg), the first call or a later one
Score ==
    /\ pc \in {"score", "scored"}
    /\ result' = <<CalculateTableConfidence(arg)>>
    /\ pc' = "scored"
    /\ UNCHANGED <<mainVars, arg, runVars>>

SpecScore == InitScore /\ [][Score]_vars

\* the cells of table t, by row and column
CellsOf(t) == UNION {{<<i, j>> : j \in 1..Len(t[i])} : i \in 1..Len(t)}

\* the cells of t that hold a text with a character that is not white space
NonEmptyCellsOf(t) ==
    {c \in CellsOf(t) :
        /\ t[c[1]][c[2]] # None
        /\ \E k \in 1..Len(t[c[1]][c[2]]) : t[c[1]][c[2]][k] \notin Whitespace}

\* the rows of t with n cells
RowsOfLength(t, n) == {i \in 1..Len(t) : Len(t[i]) = n}

\* the most frequent row lengths of t
ModalLengths(t) ==
    {n \in {Len(t[i]) : i \in 1..Len(t)} :
        \A i \in 1..Len(t) :
            Cardinality(RowsOfLength(t, Len(t[i])))
                <= Cardinality(RowsOfLength(t, n))}

\* r is (0.6 * filled/total + 0.4 * modal/rows) * 100 rounded to two
\* decimals, in hundredths: the nearest integer to the exact value
IsWeightedScore(r, filled, total, modal, rows) ==
    LET num == 6000 * filled * rows + 4000 * modal * total
        den == total * rows
    IN  /\ 2 * (r * den - num) <= den
        /\ 2 * (num - r * den) <= den

\* C13: the scorer returns a value between 0 and 100; for a table with a
\* cell it is 0.6 times the share of cells non-empty after trimming plus 0.4
\* times the share of rows of the most frequent length, as a percentage
\* rounded to two decimals (for a table without a cell it is 0); and a
\* further call on the same rows returns the same value
C13_ScoreContract ==
    /\ [](pc = "scored" =>
              /\ result[1] \in 0..10000
              /\ CellsOf(arg) = {} => result[1] = 0
              /\ CellsOf(arg) # {} =>
                    \A n \in ModalLengths(arg) :
                        IsWeightedScore(result[1],
                                        Cardinality(NonEmptyCellsOf(arg)),
                                        Cardinality(CellsOf(arg)),
                                        Cardinality(RowsOfLength(arg, n)),
                                        Len(arg)))
    /\ [][pc = "scored" => result' = result]_vars

\* the scorer has returned for two rows of different lengths, one of them
\* holding a blank cell
C13_Witness ==
    /\ pc = "scored"
    /\ Len(arg) = 2
    /\ Len(arg[1]) # Len(arg[2])
    /\ \E c \in CellsOf(arg) : arg[c[1]][c[2]] = <<" ">>
    /\ NonEmptyCellsOf(arg) # {}

\* C14 as stated: for the example rows the scorer counts 7 cells, 5 of them
\* non-empty, a most frequent row length of 2 in 2 of 3 rows, and returns
\* 52.38
C14_ScoringExample ==
    (pc = "scored" /\ arg = ExampleRows) =>
        /\ Cardinality(CellsOf(arg)) = 7
        /\ Cardinality(NonEmptyCellsOf(arg)) = 5
        /\ ModalLengths(arg) = {2}
        /\ Cardinality(RowsOfLength(arg, 2)) = 2
        /\ result = <<5238>>

\* C14, amended: for the example rows the scorer counts 7 cells, 6 of them
\* non-empty, a most frequent row length of 2 in 2 of 3 rows, and returns
\* 78.1
C14_ScoringExampleAmended ==
    (pc = "scored" /\ arg = ExampleRows) =>
        /\ Cardinality(CellsOf(arg)) = 7
        /\ Cardinality(NonEmptyCellsOf(arg)) = 6
        /\ ModalLengths(arg) = {2}
        /\ Cardinality(RowsOfLength(arg, 2)) = 2
        /\ result = <<7810>>

\* the scorer has returned for the example rows
C14_Witness == pc = "scored" /\ arg = ExampleRows /\ result # <<>>

-----------------------------------------------------------------------------
(* _add_text_block called on its own *)

\* the longest text built from TextAlphabet
MaxTextLen == 4

\* a digit, the punctuation of the patterns, white space, a letter of each
\* case, a dash and a keyword
TextAlphabet == {"1", ".", " ", "A", "a", "-", "U+C7A5"}

\* n times the character c
Repeat(c, n) == [i \in 1..n |-> c]

\* the lengths on both sides of the tests `len(text) < 50` and
\* `len(text) < 100`
LongLengths == {49, 50, 99, 100}

\* a numbered text, a capital, a keyword, a dash item, a lower-case text
LongPrefixes == {<<"1", ".", " ">>, <<"A">>, <<"U+C7A5">>, <<"-", " ">>, <<"a">>}

\* texts of the lengths of LongLengths, in lower case or in upper case
LongTexts ==
    {prefix \o Repeat(c, n - Len(prefix)) :
        prefix \in LongPrefixes, c \in {"a", "A"}, n \in LongLengths}

\* "1. Introduction"
NumberedIntroduction ==
    <<"1", ".", " ", "I", "n", "t", "r", "o", "d", "u", "c", "t", "i", "o", "n">>

\* "   - item"
ItemIndentedBy3 == <<" ", " ", " ", "-", " ", "i", "t", "e", "m">>

\* "     - item"
ItemIndentedBy5 == <<" ", " ", " ", " ", " ", "-", " ", "i", "t", "e", "m">>

\* the texts given to _add_text_block
ClassifyTexts ==
    SeqsUpTo(TextAlphabet, MaxTextLen) \cup LongTexts
        \cup {NumberedIntroduction, ItemIndentedBy3, ItemIndentedBy5}

InitClassify ==
    /\ pc = "classify"
    /\ arg \in ClassifyTexts
    /\ result = <<>>
    /\ Standalone

\* self._add_text_block(arg, 1, avg_font_size)
Classify ==
    /\ pc = "classify"
    /\ text_blocks' = text_blocks \o AddTextBlock(arg, 1)
    /\ pc' = "classified"
    /\ UNCHANGED <<mainVars, callVars, numPages, page, tables,
                   comparison_report, candidates, calls, raw, files>>

SpecClassify == InitClassify /\ [][Classify]_vars

\* text begins with digits, then '.' or ')', then white space
IsNumbered(text) ==
    \E k \in 1..Len(text) :
        /\ \A i \in 1..k : text[i] \in Digits
        /\ k + 2 <= Len(text)
        /\ text[k + 1] \in {".", ")"}
        /\ text[k + 2] \in Whitespace

\* text has a letter and no lower-case one, or is shorter than 50 characters
\* and begins with a capital
IsCaseBased(text) ==
    \/ /\ \E i \in 1..Len(text) : text[i] \in UpperLetters
       /\ \A i \in 1..Len(text) : text[i] \notin LowerLetters
    \/ text[1] \in UpperLetters /\ Len(text) < 50

\* text holds one of the keywords
HasKeyword(text) ==
    \E kw \in HeadingKeywords, i \in 1..Len(text) :
        /\ i + Len(kw) - 1 <= Len(text)
        /\ \A k \in 1..Len(kw) : ToLower(text[i + k - 1]) = kw[k]

\* text matches one of the five list patterns
IsListText(text) ==
    \/ IsNumbered(text)
    \/ Len(text) >= 2 /\ text[1] \in BulletGlyphs \cup DashGlyphs
          /\ text[2] \in Whitespace
    \/ Len(text) >= 3 /\ text[1] \in HangulGaHa \cup LowerLetters
          /\ text[2] \in {".", ")"} /\ text[3] \in Whitespace

\* the depth the list patterns give to a text that matches one
PatternDepth(text) ==
    IF IsNumbered(text) \/ text[1] \in BulletGlyphs \cup DashGlyphs
    THEN 1 ELSE 2

\* block is the only text block, of that type and level, holding arg
OnlyBlockIs(block_type, level) ==
    text_blocks = <<TextBlock(arg, block_type, level, 1)>>

\* C15: a text shorter than 100 characters is a heading by the first of the
\* rules numbered (level 2), case-based (level 1), keyword (level 2) that
\* applies, whether or not it matches a list pattern; no other text is a
\* heading; a text that is neither a heading nor a list item is a paragraph
\* of level 0
C15_HeadingPrecedence ==
    (pc = "classified" /\ arg # <<>>) =>
        LET short == Len(arg) < 100
            heading == short /\ (IsNumbered(arg) \/ IsCaseBased(arg)
                                    \/ HasKeyword(arg))
        IN  /\ (short /\ IsNumbered(arg)) => OnlyBlockIs("heading", 2)
            /\ (short /\ ~IsNumbered(arg) /\ IsCaseBased(arg))
                  => OnlyBlockIs("heading", 1)
            /\ (short /\ ~IsNumbered(arg) /\ ~IsCaseBased(arg)
                    /\ HasKeyword(arg)) => OnlyBlockIs("heading", 2)
            /\ ~heading => text_blocks[1].block_type # "heading"
            /\ (~heading /\ ~IsListText(arg)) => OnlyBlockIs("paragraph", 0)
            /\ Len(text_blocks) = 1

\* "1. Introduction", which matches the numbered heading pattern and the
\* numeric list pattern, has become a heading of level 2
C15_Witness ==
    /\ pc = "classified"
    /\ arg = NumberedIntroduction
    /\ IsListText(arg)
    /\ OnlyBlockIs("heading", 2)

\* C16 as stated: a text that is a list item behind leading white space is
\* classified list_item, with the depth of its pattern plus 1 if the white
\* space is 5 or more columns wide: "   - item" has level 1 and
\* "     - item" level 2
C16_IndentedListItems ==
    pc = "classified" =>
        /\ arg = ItemIndentedBy3 => OnlyBlockIs("list_item", 1)
        /\ arg = ItemIndentedBy5 => OnlyBlockIs("list_item", 2)
        /\ (text_blocks # <<>> /\ text_blocks[1].block_type = "list_item") =>
              text_blocks[1].level
                  = PatternDepth(LStrip(arg))
                        + (IF Len(arg) - Len(LStrip(arg)) >= 5 THEN 1 ELSE 0)

-----------------------------------------------------------------------------
(* _save_results called on its own: the renderers on any blocks and tables *)

\* the most text blocks of the extractor whose results are saved
MaxRenderBlocks == 3

\* the most tables of that extractor
MaxRenderTables == 2

\* the page numbers of those blocks and tables
RenderPages == 1..2

\* a paragraph on either page, and on either page a marker naming either page
RenderBlocks ==
    {TextBlock(<<"a">>, "paragraph", 0, p) : p \in RenderPages}
        \cup {TextBlock(TableMarkerText(q, 0), "table", 0, p) :
                 p \in RenderPages, q \in RenderPages}

\* a table of page p whose header names the page
RenderTable(p, source, oid) ==
    TableData(<<<<<<"p">> \o IntToStr(p)>>, <<CellA>>>>, p, source, 8500, oid)

\* self.tables: the tables of a list carry their positions as identities
RenderTableLists ==
    UNION {{[i \in 1..n |-> RenderTable(f[i][1], f[i][2], i)] :
               f \in [1..n -> RenderPages \X {"pdfplumber", "camelot_stream"}]} :
           n \in 0..MaxRenderTables}

InitRender ==
    /\ pc = "save"
    /\ Constructed
    /\ text_blocks \in SeqsUpTo(RenderBlocks, MaxRenderBlocks)
    /\ tables \in RenderTableLists
    /\ page = 0
    /\ comparison_report = <<>>
    /\ candidates = <<>>
    /\ calls = [s \in Sources |-> "none"]
    /\ raw = [s \in Sources |-> 0]
    /\ files = <<>>
    /\ arg = <<>>
    /\ result = <<>>

SpecRender == InitRender /\ [][SaveResults]_vars

\* the rendered documents, as _save_markdown and _save_html wrote them
RenderedMd == files[<<"extracted_text.md">>]

RenderedHtml == files[<<"extracted_text.html">>]

\* the positions in self.text_blocks of the table markers
MarkerBlocks ==
    {i \in 1..Len(text_blocks) :
        /\ text_blocks[i].block_type = "table"
        /\ MatchTableMarker(text_blocks[i].text).matched}

\* the page number written in the marker at position i
MarkerPage(i) == MatchTableMarker(text_blocks[i].text).page_num

\* the markers whose page has a table in self.tables, and the others
ResolvedMarkers == {i \in MarkerBlocks : WinnersOn(MarkerPage(i)) # {}}

DanglingMarkers == MarkerBlocks \ ResolvedMarkers

\* the j-th smallest element of a set of integers
Nth(S, j) == CHOOSE x \in S : Cardinality({y \in S : y < x}) = j - 1

\* the number of positions of blocks at which the page number changes
PageChanges(blocks) ==
    Cardinality({i \in 1..Len(blocks) :
        blocks[i].page_num # (IF i = 1 THEN 0 ELSE blocks[i - 1].page_num)})

\* the texts of the paragraph blocks, in order
ParagraphTexts(blocks) ==
    LET ps == SelectSeq(blocks, LAMBDA b : b.block_type = "paragraph")
    IN  [i \in 1..Len(ps) |-> ps[i].text]

\* C17: in both renderings the j-th marker whose page has a table renders a
\* title, the grid of the first table of self.tables with the page number
\* written in the marker, and that table's source; a marker whose page has no
\* table adds nothing; the saving ends without an error and the paragraphs
\* are rendered as they are without the marker
C17_MarkerResolution ==
    pc = "done" =>
        LET md == RenderedMd
            html == RenderedHtml
            mdTitles == {k \in 1..Len(md) : md[k].md = "table_title"}
            htmlTitles == {k \in 1..Len(html) : html[k].html = "h3"}
            n == Cardinality(ResolvedMarkers)
            others == Len(text_blocks) - Cardinality(MarkerBlocks)
        IN  /\ Cardinality(mdTitles) = n
            /\ Cardinality(htmlTitles) = n
            /\ \A j \in 1..n :
                  LET i == Nth(ResolvedMarkers, j)
                      t == tables[MinOf(WinnersOn(MarkerPage(i)))]
                      k == Nth(mdTitles, j)
                      h == Nth(htmlTitles, j)
                  IN  /\ t.page_num = MarkerPage(i)
                      /\ md[k + 1].md = "table"
                      /\ md[k + 1].headers = t.data[1]
                      /\ md[k + 2].md = "table_source"
                      /\ md[k + 2].source = t.source
                      /\ html[h + 1].html = "table"
                      /\ html[h + 1].thead = t.data[1]
                      /\ html[h + 2].html = "table-info"
                      /\ html[h + 2].source = t.source
            /\ Len(md) = PageChanges(text_blocks) + others + 3 * n
            /\ Len(html) = 2 * PageChanges(text_blocks) + others + 3 * n
            /\ ParagraphTexts(text_blocks)
                  = [i \in 1..Cardinality({k \in 1..Len(md) :
                                              md[k].md = "paragraph"}) |->
                        md[Nth({k \in 1..Len(md) : md[k].md = "paragraph"},
                               i)].text]

\* saved: a marker whose page has no table, before a marker whose page has
\* one and a paragraph
C17_Witness ==
    /\ pc = "done"
    /\ \E d \in DanglingMarkers, r \in ResolvedMarkers :
          /\ d < r
          /\ \E i \in 1..Len(text_blocks) :
                d < i /\ text_blocks[i].block_type = "paragraph"
    /\ tables # <<>>

-----------------------------------------------------------------------------
(* The order of the blocks and of the steps of extract_all *)

\* the page numbers of the page sections of the markup document, in order
PageSections(md) ==
    LET sections == SelectSeq(md, LAMBDA e : e.md = "page")
    IN  [i \in 1..Len(sections) |-> sections[i].page_num]

\* the pages that have a text block
BlockPages == {text_blocks[i].page_num : i \in 1..Len(text_blocks)}

\* C18: at every point of a run the page numbers of self.text_blocks never
\* decrease along the list, and the markup document written at the end has
\* one page section for each page with a block and no other, the sections in
\* strictly increasing order of page number
C18_PageOrder ==
    /\ \A i, j \in 1..Len(text_blocks) :
          i <= j => text_blocks[i].page_num <= text_blocks[j].page_num
    /\ pc = "done" =>
          LET sections == PageSections(files[<<"extracted_text.md">>])
          IN  /\ \A i, j \in 1..Len(sections) :
                    i < j => sections[i] < sections[j]
              /\ Range(sections) = BlockPages

\* a finished run on two pages, both with blocks, page 1 with several
C18_Witness ==
    /\ pc = "done"
    /\ BlockPages = {1, 2}
    /\ Cardinality({i \in 1..Len(text_blocks) : text_blocks[i].page_num = 1}) >= 2
    /\ PageSections(files[<<"extracted_text.md">>]) = <<1, 2>>

\* the backends in the order of extract_all
BackendOrder == <<"pdfplumber", "camelot_stream", "camelot_lattice">>

\* C19 as stated: every run goes through the three backends in order, then
\* cross-validation, then the output: a backend is called only after the
\* ones before it returned or raised, cross-validation starts only when all
\* three have returned or raised and every run gets to it, self.tables holds
\* only candidates afterwards, and the files are those of the validated
\* tables
C19_StepOrder ==
    /\ pc # "aborted"
    /\ \A i, j \in 1..3 :
          (i < j /\ calls[BackendOrder[j]] # "none")
              => calls[BackendOrder[i]] # "none"
    /\ pc \in {"cross_validate", "save", "done"} =>
          \A b \in Sources : calls[b] \in {"ok", "threw"}
    /\ Validated =>
          /\ tables = ValidatedTables(candidates)
          /\ \A i \in 1..Len(tables) : \E j \in 1..Len(candidates) :
                tables[i] = candidates[j]
    /\ pc # "done" => files = <<>>
    /\ pc = "done" => files = SavedFiles

-----------------------------------------------------------------------------
(* hwp_to_html of src/utils.py called on its own *)

\* hwp_path: None, the empty string, a path
HwpPaths == {"None", "", "doc.hwp"}

\* hwp_file: None, an object without a read method, a file whose read()
\* returns bytes, a file whose read() returns a str
HwpFiles == {"None", "no read", "bytes", "str"}

\* what index.xhtml holds: an XML declaration, an html element, a head
\* element, elements and attributes that the cleaning removes
HwpDocuments ==
    [xml_declaration : BOOLEAN, html : BOOLEAN, head : BOOLEAN,
     removable : BOOLEAN]

\* a call: its two arguments, whether Hwp5File opens the file, whether the
\* transformation returns, and the index.xhtml it leaves (<<>>: none)
HwpCalls ==
    [hwp_path : HwpPaths, hwp_file : HwpFiles, opens : BOOLEAN,
     transforms : BOOLEAN,
     index_xhtml : {<<>>} \cup {<<d>> : d \in HwpDocuments}]

\* the call ends with an exception of class `class`, raised for `cause`
Raised(class, cause) == [raised |-> class, cause |-> cause]

\* the call returns html_str
Returned(html_str) == [raised |-> "", html_str |-> html_str]

\* html_str of a document: without the removable parts and the XML
\* declaration, with a head (in a new html element if there was none) and
\* the style element
CleanedHtml(d) ==
    [xml_declaration |-> FALSE,
     html |-> d.html \/ ~d.head,
     head |-> TRUE,
     removable |-> FALSE,
     style |-> TRUE]

\* hwp_to_html(hwp_path, hwp_file)
HwpToHtml(call) ==
    LET path_given == call.hwp_path \notin {"None", ""}
        file_given == call.hwp_file # "None"
    IN  IF ~path_given /\ ~file_given
        THEN Raised("ValueError", "neither given")
        ELSE IF path_given /\ file_given
        THEN Raised("ValueError", "both given")
        \* inside the try: `except Exception as e: raise Exception(...)`
        ELSE IF file_given /\ call.hwp_file = "no read"
        THEN Raised("Exception", "ValueError: no read method")
        ELSE IF ~call.opens
        THEN Raised("Exception", "Hwp5File")
        ELSE IF ~call.transforms
        THEN Raised("Exception", "transform_hwp5_to_dir")
        ELSE IF call.index_xhtml = <<>>
        THEN Raised("Exception", "RuntimeError: no index.xhtml")
        ELSE Returned(CleanedHtml(call.index_xhtml[1]))

\* no extractor exists: the function is called on its own
NoExtractor ==
    /\ pdf_file = "<no argument>"
    /\ numPages = 0
    /\ NoMain
    /\ Fresh

InitHwp ==
    /\ pc = "hwp_to_html"
    /\ arg \in HwpCalls
    /\ result = <<>>
    /\ NoExtractor

\* the call of hwp_to_html, to its return or its exception
CallHwpToHtml ==
    /\ pc = "hwp_to_html"
    /\ result' = <<HwpToHtml(arg)>>
    /\ pc' = "returned"
    /\ UNCHANGED <<mainVars, arg, runVars>>

SpecHwp == InitHwp /\ [][CallHwpToHtml]_vars

\* the input of the call is invalid: neither argument, both, or a file
\* object without a read method
HwpInputInvalid ==
    LET path_given == arg.hwp_path \notin {"None", ""}
        file_given == arg.hwp_file # "None"
    IN  \/ ~path_given /\ ~file_given
        \/ path_given /\ file_given
        \/ file_given /\ arg.hwp_file = "no read"

\* the conversion of the call fails
HwpConversionFails ==
    ~arg.opens \/ ~arg.transforms \/ arg.index_xhtml = <<>>

\* C20 as stated: a call with invalid input ends with ValueError, and a call
\* with valid input whose conversion fails (index.xhtml missing, for one)
\* ends with RuntimeError
C20_DocumentedExceptions ==
    pc = "returned" =>
        /\ HwpInputInvalid => result[1].raised = "ValueError"
        /\ (~HwpInputInvalid /\ HwpConversionFails)
              => result[1].raised = "RuntimeError"

-----------------------------------------------------------------------------
(* _cross_validate_tables called on its own: any list of candidates *)

\* the most candidates in self.tables
MaxCandidates == 3

\* the pages of the candidates
CandidatePageNums == 1..2

\* the confidences of the candidates, in hundredths of a percent
CandidateConfidences == {0, 4000, 9000}

\* self.tables before the validation: tables of two rows from any source in
\* any order, each carrying its position as identity
CandidateLists ==
    UNION {{[i \in 1..n |->
                TableData(<<<<CellA>>, <<CellA>>>>, f[i][1], f[i][2], f[i][3], i)] :
               f \in [1..n -> CandidatePageNums \X Sources
                                  \X CandidateConfidences]} :
           n \in 0..MaxCandidates}

InitValidate ==
    /\ pc = "cross_validate"
    /\ Constructed
    /\ tables \in CandidateLists
    /\ page = 0
    /\ text_blocks = <<>>
    /\ comparison_report = <<>>
    /\ candidates = <<>>
    /\ calls = [s \in Sources |-> "ok"]
    /\ raw = [s \in Sources |-> Cardinality(TablesFrom(tables, s))]
    /\ files = <<>>
    /\ arg = <<>>
    /\ result = <<>>

SpecValidate == InitValidate /\ [][CrossValidate]_vars

\* C21: after the validation the table kept for a page has the greatest
\* confidence of all candidates of the page, whatever their sources and
\* their order: the reduction in two stages agrees in confidence with a
\* single maximum over the page
C21_GlobalMaximum ==
    Validated =>
        \A p \in CandidatePages :
            /\ WinnersOn(p) # {}
            /\ \A i \in WinnersOn(p) :
                  tables[i].confidence
                      = MaxOf({candidates[j].confidence : j \in CandidatesOn(p)})

\* validated: a page whose three candidates come from two sources, the
\* source seen first having its best table last and the greatest confidence
\* of the page
C21_Witness ==
    /\ Validated
    /\ \E p \in CandidatePages :
          /\ Cardinality(CandidatesOn(p)) = 3
          /\ \E a, b, c \in CandidatesOn(p) :
                /\ a < b /\ b < c
                /\ candidates[a].source = candidates[c].source
                /\ candidates[b].source # candidates[a].source
                /\ candidates[a].confidence < candidates[b].confidence
                /\ candidates[b].confidence < candidates[c].confidence
                /\ \E i \in WinnersOn(p) : tables[i] = candidates[c]

-----------------------------------------------------------------------------
(* Markers, the machine-readable record and the blocks of a page *)

\* the candidates as they stand: self.tables until the validation has
\* replaced it, the list it found afterwards
CandidatesSoFar == IF Validated THEN candidates ELSE tables

\* C22: every block of type table is a marker naming its own page, and that
\* page has a layout-aware candidate; once validated, the page of every
\* marker has exactly one table; and the markup document renders, for the
\* j-th marker, a title followed by the grid and the source of the one table
\* of the marker's page, so the markers of one page all render the same table
C22_MarkersResolved ==
    /\ \A i \in 1..Len(text_blocks) :
          text_blocks[i].block_type = "table" =>
              /\ i \in MarkerBlocks
              /\ MarkerPage(i) = text_blocks[i].page_num
              /\ \E k \in 1..Len(CandidatesSoFar) :
                    /\ CandidatesSoFar[k].source = "pdfplumber"
                    /\ CandidatesSoFar[k].page_num = MarkerPage(i)
    /\ Validated =>
          \A i \in MarkerBlocks : Cardinality(WinnersOn(MarkerPage(i))) = 1
    /\ pc = "done" =>
          LET md == RenderedMd
              titles == {k \in 1..Len(md) : md[k].md = "table_title"}
          IN  /\ Cardinality(titles) = Cardinality(MarkerBlocks)
              /\ \A j \in 1..Cardinality(MarkerBlocks) :
                    LET i == Nth(MarkerBlocks, j)
                        k == Nth(titles, j)
                    IN  \A w \in WinnersOn(MarkerPage(i)) :
                            /\ md[k].table_idx
                                  = MatchTableMarker(text_blocks[i].text).table_idx
                            /\ md[k + 1].md = "table"
                            /\ md[k + 1].headers = tables[w].data[1]
                            /\ md[k + 2].md = "table_source"
                            /\ md[k + 2].source = tables[w].source

\* a finished run with two markers of one page, whose one table came from a
\* camelot backend
C22_Witness ==
    /\ pc = "done"
    /\ \E i, j \in MarkerBlocks :
          /\ i # j
          /\ MarkerPage(i) = MarkerPage(j)
          /\ \E w \in WinnersOn(MarkerPage(i)) : tables[w].source # "pdfplumber"
    /\ Cardinality({k \in 1..Len(RenderedMd) :
                       RenderedMd[k].md = "table_title"}) = 2

\* the machine-readable record, as _save_json wrote it
SavedRecord == files[<<"extracted_data.json">>]

\* the entry of a validated table in a tables list of the record
RecordOfTable(t) ==
    [source |-> t.source, confidence |-> t.confidence, data |-> t.data]

\* C23 as stated: in the record of a finished run every validated table is
\* in the tables list of the one content entry of its own page, a table
\* whose page has no text block and no marker included, and total_tables is
\* the sum of the lengths of the tables lists
C23_TablesInRecord ==
    pc = "done" =>
        LET content == SavedRecord.content
            EntriesOf(p) == {k \in 1..Len(content) : content[k].page_number = p}
        IN  /\ \A i \in 1..Len(tables) :
                  /\ Cardinality(EntriesOf(tables[i].page_num)) = 1
                  /\ \A k \in EntriesOf(tables[i].page_num) :
                        \E l \in 1..Len(content[k].tables) :
                            content[k].tables[l] = RecordOfTable(tables[i])
            /\ SavedRecord.total_tables
                  = SumSeq([k \in 1..Len(content) |-> Len(content[k].tables)])

-----------------------------------------------------------------------------
(* _extract_text_with_layout called on its own: any text of a page *)

\* the longest page text built from PageAlphabet
MaxPageTextLen == 5

\* a line break, white space, a dash, a letter of each case, a digit and the
\* punctuation of the numbered pattern
PageAlphabet == {"\n", " ", "-", "a", "A", "1", "."}

\* "     - item", a blank line, "   - item"
IndentedItemsPage == ItemIndentedBy5 \o <<"\n", "\n">> \o ItemIndentedBy3

\* "a", then "     - item" on the next line of the same paragraph
ContinuationPage == <<"a", "\n">> \o ItemIndentedBy5

\* page.extract_text() of the page
LayoutTexts ==
    SeqsUpTo(PageAlphabet, MaxPageTextLen) \cup LongTexts
        \cup {IndentedItemsPage, ContinuationPage, ItemIndentedBy5}

InitLayout ==
    /\ pc = "layout"
    /\ arg \in LayoutTexts
    /\ result = <<>>
    /\ Standalone

\* self._extract_text_with_layout(page, 1) for a page with the text arg
ExtractLayout ==
    /\ pc = "layout"
    /\ text_blocks' = text_blocks \o ExtractTextWithLayout(arg, 1)
    /\ pc' = "segmented"
    /\ UNCHANGED <<mainVars, callVars, numPages, page, tables,
                   comparison_report, candidates, calls, raw, files>>

SpecLayout == InitLayout /\ [][ExtractLayout]_vars

\* C24: every block of a page has a text that is not empty, holds no line
\* break and neither begins nor ends with white space; a list item has level
\* 1 or 2, a heading level 1 or 2, a paragraph level 0; and a text shorter
\* than 100 characters that begins with the numbered pattern is not a list
\* item
C24_BlocksOfAPage ==
    \A i \in 1..Len(text_blocks) :
        LET b == text_blocks[i]
        IN  /\ b.text # <<>>
            /\ b.text[1] \notin Whitespace
            /\ b.text[Len(b.text)] \notin Whitespace
            /\ \A k \in 1..Len(b.text) : b.text[k] # "\n"
            /\ b.block_type \in {"heading", "list_item", "paragraph"}
            /\ b.block_type = "list_item" => b.level \in {1, 2}
            /\ b.block_type = "heading" => b.level \in {1, 2}
            /\ b.block_type = "paragraph" => b.level = 0
            /\ (Len(b.text) < 100 /\ IsNumbered(b.text))
                  => b.block_type # "list_item"

\* the page of two indented list items has given two list items of level 1,
\* the one indented by five columns included
C24_Witness ==
    /\ pc = "segmented"
    /\ arg = IndentedItemsPage
    /\ Len(text_blocks) = 2
    /\ \A i \in 1..2 :
          /\ text_blocks[i].block_type = "list_item"
          /\ text_blocks[i].level = 1

=============================================================================
